---- MODULE Spec2Model ----
(***************************************************************************)
(* Model of secure_vault.py: the Vault policy gate (five ordered checks),  *)
(* the HMAC signer and the process-wide cooldown dictionary `state`.       *)
(***************************************************************************)
EXTENDS Integers, Sequences, FiniteSets, TLC

\* ---------------------------------------------------------------- bounds
MaxTime == 11          \* the clock int(time.time()) ranges over 0..MaxTime
MaxDelay == 1          \* seconds that may pass between the two clock reads of sign
MaxValue == 2          \* intent.value ranges over -1..MaxValue

\* ------------------------------------------------------ program constants
CooldownSecs == 5      \* "< 5" of the cooldown check
AddrLen == 42          \* len(intent.to) != 42
DigestHexLen == 64     \* length of hashlib.sha256(...).hexdigest()

\* ------------------------------------------------------------ characters
HexChars == <<"0","1","2","3","4","5","6","7","8","9","a","b","c","d","e","f">>
Alphabet == HexChars \o <<"x", "g">>

Rep(c, n) == [i \in 1..n |-> c]

CharCode(c) == CHOOSE i \in 1..Len(Alphabet) : Alphabet[i] = c

\* str.startswith("0x")
startswith0x(s) == Len(s) >= 2 /\ s[1] = "0" /\ s[2] = "x"

\* dict.get(key, default); a dict is a function whose domain is its key set
Get(d, k, default) == IF k \in DOMAIN d THEN d[k] ELSE default

EmptyDict == [k \in {} |-> 0]

\* ----------------------------------------------------------------- data
\* @dataclass Intent
IntentFields == {"to", "value", "data", "chain_id", "nonce"}

Recipients ==
  { <<"0","x">> \o Rep("a", AddrLen - 2),        \* well-formed
    <<"0","x">> \o Rep("a", AddrLen - 3),        \* 41 characters
    <<"0","x">> \o Rep("a", AddrLen - 1),        \* 43 characters
    <<"g","g">> \o Rep("a", AddrLen - 2) }       \* 42 characters, no 0x prefix

Values == (-1)..MaxValue

Intents == [to : Recipients, value : Values, data : {<<"0","x">>},
            chain_id : {1}, nonce : {0}]

Actors == {"alice", "bob", ""}

\* Vault.__init__: secret, limits, guardians = set(guardians)
Vault(secret, limits, guardians) ==
  [secret |-> secret, limits |-> limits, guardians |-> guardians]

VaultIds == {1, 2, 3}

InitVaults ==
  (1 :> Vault(<<1, 2>>, [k \in {"daily"} |-> 1], {"alice", ""})) @@
  (2 :> Vault(<<3>>, EmptyDict, {"alice", "bob"})) @@
  (3 :> Vault(<<1, 2>>, [k \in {"daily"} |-> 0], {"bob"}))

\* ------------------------------------------------------------ PolicyError
OK == <<"ok">>
ActorNotAuthorized == <<"actor not authorized">>
NegativeValue == <<"negative value">>
ValueExceedsLimit(daily) == <<"value exceeds daily limit", daily>>
MalformedRecipient == <<"bad recipient">>
CooldownViolation == <<"cooldown not satisfied">>

\* faulty variants of _assert_policies: checks 1 and 2 in the other order,
\* "<=" for "<" in the cooldown check, no cooldown check
_assert_policies_swapped(self, intent, actor, st, now) ==
  LET daily == Get(self.limits, "daily", 0)
      last == Get(st, "last_ts", 0)
  IN IF intent.value < 0 THEN NegativeValue
     ELSE IF actor = "" \/ actor \notin self.guardians THEN ActorNotAuthorized
     ELSE IF daily # 0 /\ intent.value > daily THEN ValueExceedsLimit(daily)
     ELSE IF ~startswith0x(intent.to) \/ Len(intent.to) # AddrLen
       THEN MalformedRecipient
     ELSE IF now - last < CooldownSecs THEN CooldownViolation
     ELSE OK

_assert_policies_le(self, intent, actor, st, now) ==
  LET daily == Get(self.limits, "daily", 0)
      last == Get(st, "last_ts", 0)
  IN IF actor = "" \/ actor \notin self.guardians THEN ActorNotAuthorized
     ELSE IF intent.value < 0 THEN NegativeValue
     ELSE IF daily # 0 /\ intent.value > daily THEN ValueExceedsLimit(daily)
     ELSE IF ~startswith0x(intent.to) \/ Len(intent.to) # AddrLen
       THEN MalformedRecipient
     ELSE IF now - last <= CooldownSecs THEN CooldownViolation
     ELSE OK

_assert_policies_nocool(self, intent, actor, st, now) ==
  LET daily == Get(self.limits, "daily", 0)
  IN IF actor = "" \/ actor \notin self.guardians THEN ActorNotAuthorized
     ELSE IF intent.value < 0 THEN NegativeValue
     ELSE IF daily # 0 /\ intent.value > daily THEN ValueExceedsLimit(daily)
     ELSE IF ~startswith0x(intent.to) \/ Len(intent.to) # AddrLen
       THEN MalformedRecipient
     ELSE OK

\* Vault._assert_policies: OK when nothing is raised, else the PolicyError
\* raised; now is the value of int(time.time()) read by the cooldown check.
_assert_policies(self, intent, actor, st, now) ==
  LET daily == Get(self.limits, "daily", 0)
      last == Get(st, "last_ts", 0)
  IN IF actor = "" \/ actor \notin self.guardians THEN ActorNotAuthorized
     ELSE IF intent.value < 0 THEN NegativeValue
     ELSE IF daily # 0 /\ intent.value > daily THEN ValueExceedsLimit(daily)
     ELSE IF ~startswith0x(intent.to) \/ Len(intent.to) # AddrLen
       THEN MalformedRecipient
     ELSE IF now - last < CooldownSecs THEN CooldownViolation
     ELSE OK

\* ----------------------------------------------------------------- signer
\* dataclasses.asdict(intent)
asdict(intent) == [k \in IntentFields |-> intent[k]]

\* the keys of asdict(intent) in the order sort_keys=True emits them
SortedKeys == <<"chain_id", "data", "nonce", "to", "value">>

\* json.dumps(d, sort_keys=True).encode(), as a sequence of byte values:
\* per key, in sorted order, the key's position and the value's bytes
EncodeValue(k, v) ==
  IF k \in {"data", "to"}
    THEN [i \in 1..Len(v) |-> CharCode(v[i])] \o <<0>>
    ELSE <<v % 256>>

Field(d, i) == <<100 + i>> \o EncodeValue(SortedKeys[i], d[SortedKeys[i]])

dumps(d) == Field(d, 1) \o Field(d, 2) \o Field(d, 3) \o Field(d, 4) \o Field(d, 5)

\* the byte of a sequence at position i, wrapping around; 0 for the empty one
ByteAt(bytes, i) == IF Len(bytes) = 0 THEN 0 ELSE bytes[((i - 1) % Len(bytes)) + 1]

\* hmac.new(key, msg, hashlib.sha256).hexdigest(): 64 lowercase hex
\* characters determined by the key and the message (a stand-in for
\* HMAC-SHA-256 that combines key and message bytes position by position)
hexdigest(key, msg) ==
  [i \in 1..DigestHexLen |->
     HexChars[((ByteAt(key, i) * 5 + ByteAt(msg, i) * 3 + Len(msg) + Len(key) + i) % 16) + 1]]

\* faulty variants of SignResult: the actor enters the key, no "0x" prefix
SignResult_actor(self, intent, actor) ==
  [intent |-> asdict(intent), actor |-> actor,
   sig |-> <<"0","x">> \o hexdigest(self.secret \o <<Len(actor)>>, dumps(asdict(intent)))]

SignResult_noprefix(self, intent, actor) ==
  [intent |-> asdict(intent), actor |-> actor,
   sig |-> hexdigest(self.secret, dumps(asdict(intent)))]

\* the payload and digest of Vault.sign, and the dict it returns
SignResult(self, intent, actor) ==
  [intent |-> asdict(intent), actor |-> actor,
   sig |-> <<"0","x">> \o hexdigest(self.secret, dumps(asdict(intent)))]

\* state["last_ts"] = int(time.time())
StoreLastTs(st, now) ==
  [k \in DOMAIN st \cup {"last_ts"} |-> IF k = "last_ts" THEN now ELSE st[k]]

\* ---------------------------------------------------------------- state
VARIABLES
  clock,     \* int(time.time()), non-decreasing
  state,     \* the module-level dict `state`
  vaults,    \* the Vault instances of the process: id -> configuration
  call,      \* the sign call that has just returned or raised, NoCall when none
  last_ok,   \* history: commit time, vault and actor of the last successful sign
  kept,      \* history: some earlier successful sign, <<>> when none
  threads,   \* concurrent callers of sign: position and locals of each
  locking,   \* whether callers hold a lock across evaluate + commit
  lock,      \* the thread holding that lock, 0 when free
  raced      \* history: two signs succeeded less than 5 seconds apart

vars == <<clock, state, vaults, call, last_ok, kept, threads, locking, lock, raced>>

conc == <<threads, locking, lock, raced>>

Tid == {1, 2}

Idle == [pc |-> "idle", vault |-> 0, intent |-> CHOOSE i \in Intents : TRUE,
         actor |-> "", st |-> EmptyDict]

NoSuccess == [ts |-> -1, vault |-> 0]

NoCall ==
  [vault |-> 0, intent |-> CHOOSE i \in Intents : TRUE, actor |-> "",
   t |-> 0, t_commit |-> 0, state_before |-> EmptyDict, prev_ok |-> NoSuccess,
   outcome |-> <<"none">>, result |-> <<>>, intent_after |-> <<>>]

Init ==
  /\ clock = 0
  /\ state = EmptyDict
  /\ vaults = InitVaults
  /\ call = NoCall
  /\ last_ok = NoSuccess
  /\ kept = <<>>
  /\ threads = [th \in Tid |-> Idle]
  /\ locking = FALSE
  /\ lock = 0
  /\ raced = FALSE

\* the clock advances between calls
Tick ==
  /\ call = NoCall
  /\ clock < MaxTime
  /\ clock' = clock + 1
  /\ UNCHANGED <<state, vaults, call, last_ok, kept, conc>>

\* the record of one call of Vault.sign: its arguments, the clock values it
\* read, the dict it found, what it raised or returned, and the intent
\* object's fields when it ended
CallRecord(v, intent, actor, t2, reason, res, after) ==
  [vault |-> v, intent |-> intent, actor |-> actor,
   t |-> clock, t_commit |-> t2, state_before |-> state,
   prev_ok |-> last_ok, outcome |-> reason,
   result |-> IF reason = OK THEN <<res>> ELSE <<>>,
   intent_after |-> <<after>>]

\* faulty variants of sign: the timestamp is stored before the policies are
\* evaluated; a rejection clears state; a success spends the vault's limits;
\* the cooldown is kept per Vault
sign_store_first(v, intent, actor, d) ==
  LET self == vaults[v]
      reason == _assert_policies(self, intent, actor, state, clock)
      t2 == clock + d
  IN /\ call = NoCall
     /\ t2 <= MaxTime
     /\ reason = OK \/ d = 0
     /\ clock' = t2
     /\ state' = StoreLastTs(state, t2)
     /\ call' = CallRecord(v, intent, actor, t2, reason,
                           SignResult(self, intent, actor), intent)
     /\ last_ok' = IF reason = OK THEN [ts |-> t2, vault |-> v] ELSE last_ok
     /\ UNCHANGED <<vaults, kept, conc>>

sign_reset(v, intent, actor, d) ==
  LET self == vaults[v]
      reason == _assert_policies(self, intent, actor, state, clock)
      t2 == clock + d
  IN /\ call = NoCall
     /\ t2 <= MaxTime
     /\ reason = OK \/ d = 0
     /\ clock' = t2
     /\ state' = IF reason = OK THEN StoreLastTs(state, t2) ELSE EmptyDict
     /\ call' = CallRecord(v, intent, actor, t2, reason,
                           SignResult(self, intent, actor), intent)
     /\ last_ok' = IF reason = OK THEN [ts |-> t2, vault |-> v] ELSE last_ok
     /\ UNCHANGED <<vaults, kept, conc>>

sign_spends_limit(v, intent, actor, d) ==
  LET self == vaults[v]
      reason == _assert_policies(self, intent, actor, state, clock)
      t2 == clock + d
      spent == [k \in DOMAIN self.limits |-> self.limits[k] - intent.value]
  IN /\ call = NoCall
     /\ t2 <= MaxTime
     /\ reason = OK \/ d = 0
     /\ clock' = t2
     /\ state' = IF reason = OK THEN StoreLastTs(state, t2) ELSE state
     /\ call' = CallRecord(v, intent, actor, t2, reason,
                           SignResult(self, intent, actor), intent)
     /\ last_ok' = IF reason = OK THEN [ts |-> t2, vault |-> v] ELSE last_ok
     /\ vaults' = IF reason = OK THEN [vaults EXCEPT ![v].limits = spent] ELSE vaults
     /\ UNCHANGED <<kept, conc>>

sign_per_vault(v, intent, actor, d) ==
  LET self == vaults[v]
      own == IF last_ok.vault = v THEN state ELSE EmptyDict
      reason == _assert_policies(self, intent, actor, own, clock)
      t2 == clock + d
  IN /\ call = NoCall
     /\ t2 <= MaxTime
     /\ reason = OK \/ d = 0
     /\ clock' = t2
     /\ state' = IF reason = OK THEN StoreLastTs(state, t2) ELSE state
     /\ call' = CallRecord(v, intent, actor, t2, reason,
                           SignResult(self, intent, actor), intent)
     /\ last_ok' = IF reason = OK THEN [ts |-> t2, vault |-> v] ELSE last_ok
     /\ UNCHANGED <<vaults, kept, conc>>

\* Vault.sign(intent, actor) on vault v; d seconds pass between the clock
\* read of the cooldown check and the clock read of the commit
sign(v, intent, actor, d) ==
  LET self == vaults[v]
      reason == _assert_policies(self, intent, actor, state, clock)
      t2 == clock + d
  IN /\ call = NoCall
     /\ t2 <= MaxTime
     /\ reason = OK \/ d = 0
     /\ clock' = t2
     /\ state' = IF reason = OK THEN StoreLastTs(state, t2) ELSE state
     /\ call' = CallRecord(v, intent, actor, t2, reason,
                           SignResult(self, intent, actor), intent)
     /\ last_ok' = IF reason = OK THEN [ts |-> t2, vault |-> v] ELSE last_ok
     /\ UNCHANGED <<vaults, kept, conc>>

\* what is remembered of a successful call
Summary(c) ==
  [secret |-> vaults[c.vault].secret, intent |-> c.intent, actor |-> c.actor,
   sig |-> c.result[1].sig, ts |-> c.t_commit, vault |-> c.vault]

\* main: the caller prints the result or the error and drops it; a
\* successful call may be remembered as the earlier call of later comparisons
print_result ==
  /\ call # NoCall
  /\ call' = NoCall
  /\ kept' \in {kept} \cup
               (IF call.outcome = OK /\ kept = <<>> THEN {<<Summary(call)>>} ELSE {})
  /\ UNCHANGED <<clock, state, vaults, last_ok, conc>>

Next ==
  \/ Tick
  \/ \E v \in VaultIds, intent \in Intents, actor \in Actors, d \in 0..MaxDelay :
        sign(v, intent, actor, d)
  \/ print_result

Spec == Init /\ [][Next]_vars

\* ------------------------------------------------- concurrent sign calls
\* Two threads of one process call Vault.sign; a thread can be preempted
\* between the read of state (line 36), the clock read and comparison
\* (line 37) and the store (line 44).
ConcIntents ==
  {i \in Intents : i.value = 0 /\ Len(i.to) \in {AddrLen, AddrLen + 1}}

ConcActors == {"alice"}

ConcVaults == {1, 2}

ConcInit ==
  /\ clock = 0
  /\ state = EmptyDict
  /\ vaults = InitVaults
  /\ call = NoCall
  /\ last_ok = NoSuccess
  /\ kept = <<>>
  /\ threads = [th \in Tid |-> Idle]
  /\ locking \in BOOLEAN
  /\ lock = 0
  /\ raced = FALSE

\* the mutual-exclusion discipline: a caller takes the lock before it
\* evaluates the policies and gives it back after its store or its raise
lock_free == locking => lock = 0

acquire(th) == IF locking THEN th ELSE lock

release(th) == IF lock = th THEN 0 ELSE lock

\* sign is entered (taking the lock when locking) and _assert_policies
\* reaches state.get("last_ts", 0); checks 1-4 read nothing that changes
sign_enter(th, v, intent, actor) ==
  /\ threads[th].pc = "idle"
  /\ lock_free
  /\ lock' = acquire(th)
  /\ threads' = [threads EXCEPT ![th] =
                   [pc |-> "read", vault |-> v, intent |-> intent,
                    actor |-> actor, st |-> state]]
  /\ UNCHANGED <<clock, state, vaults, call, last_ok, kept, locking, raced>>

\* _assert_policies reads the clock and raises or returns
sign_check(th) ==
  LET me == threads[th]
      reason == _assert_policies(vaults[me.vault], me.intent, me.actor, me.st, clock)
  IN /\ me.pc = "read"
     /\ threads' = [threads EXCEPT ![th] =
                      IF reason = OK THEN [me EXCEPT !.pc = "passed"] ELSE Idle]
     /\ lock' = IF reason # OK THEN release(th) ELSE lock
     /\ UNCHANGED <<clock, state, vaults, call, last_ok, kept, locking, raced>>

\* sign computes the digest, stores int(time.time()) and returns
sign_commit(th) ==
  LET me == threads[th]
  IN /\ me.pc = "passed"
     /\ state' = StoreLastTs(state, clock)
     /\ last_ok' = [ts |-> clock, vault |-> me.vault]
     /\ raced' = (raced \/ (last_ok.ts >= 0 /\ clock - last_ok.ts < CooldownSecs))
     /\ threads' = [threads EXCEPT ![th] = Idle]
     /\ lock' = release(th)
     /\ UNCHANGED <<clock, vaults, call, kept, locking>>

ConcNext ==
  \/ Tick
  \/ \E th \in Tid, v \in ConcVaults, intent \in ConcIntents, actor \in ConcActors :
        sign_enter(th, v, intent, actor)
  \/ \E th \in Tid : sign_check(th)
  \/ \E th \in Tid : sign_commit(th)

ConcSpec == ConcInit /\ [][ConcNext]_vars

\* ------------------------------------------------------------- properties
Called == call # NoCall
Succeeded == call.outcome = OK
Rejected == Called /\ call.outcome # OK

LastTs(st) == Get(st, "last_ts", 0)

\* the five checks of section 4.1, each stated on the call's inputs alone
Unauthorized == call.actor = "" \/ call.actor \notin vaults[call.vault].guardians
Negative == call.intent.value < 0
DailyOf(v) == Get(vaults[v].limits, "daily", 0)
OverLimit == DailyOf(call.vault) # 0 /\ call.intent.value > DailyOf(call.vault)
WellFormed(to) == Len(to) = AddrLen /\ SubSeq(to, 1, 2) = <<"0", "x">>
BadRecipient == ~WellFormed(call.intent.to)
TooSoon == call.t - LastTs(call.state_before) < CooldownSecs

PassesChecks1to4 == ~Unauthorized /\ ~Negative /\ ~OverLimit /\ ~BadRecipient

FirstFailure ==
  LET fails == <<Unauthorized, Negative, OverLimit, BadRecipient, TooSoon>>
      reasons == <<ActorNotAuthorized, NegativeValue,
                   ValueExceedsLimit(DailyOf(call.vault)),
                   MalformedRecipient, CooldownViolation>>
      failing == {i \in 1..5 : fails[i]}
  IN IF failing = {} THEN OK
     ELSE reasons[CHOOSE i \in failing : \A j \in failing : i <= j]

\* C1: a sign call reports the reason of the first of the five checks, in
\* the order actor, value >= 0, daily limit, recipient, cooldown, that fails
\* (and succeeds when none fails); unauthorized and negative together give
\* ActorNotAuthorized.
C1_FirstFailureWins == Called => call.outcome = FirstFailure

C1_Witness ==
  /\ Called /\ Unauthorized /\ Negative /\ BadRecipient /\ TooSoon
  /\ call.outcome = ActorNotAuthorized

\* C2: a rejected sign leaves the dict `state` exactly as it found it and
\* returns no result, also after earlier successes and rejections.
C2_RejectionKeepsCooldown ==
  Rejected => state = call.state_before /\ call.result = <<>>

C2_Witness ==
  /\ Rejected /\ call.outcome # CooldownViolation
  /\ "last_ts" \in DOMAIN call.state_before
  /\ state = call.state_before

\* C3: less than 5 seconds after a successful sign, a call that passes
\* checks 1-4 is rejected with CooldownViolation and changes nothing; two
\* successful signs are never less than 5 seconds apart; 5 or more seconds
\* after the last success the cooldown check does not reject.
C3_Cooldown ==
  /\ (Called /\ call.prev_ok.ts >= 0 /\ PassesChecks1to4
        /\ call.t - call.prev_ok.ts < CooldownSecs)
       => (call.outcome = CooldownViolation /\ state = call.state_before)
  /\ (Succeeded /\ call.prev_ok.ts >= 0)
       => call.t_commit - call.prev_ok.ts >= CooldownSecs
  /\ (Succeeded /\ kept # <<>>) => call.t_commit - kept[1].ts >= CooldownSecs
  /\ (Called /\ call.prev_ok.ts >= 0 /\ call.t - call.prev_ok.ts >= CooldownSecs)
       => call.outcome # CooldownViolation

C3_Witness ==
  /\ Succeeded /\ call.prev_ok.ts >= 0
  /\ call.t - call.prev_ok.ts = CooldownSecs

IsHex(c) == \E i \in 1..Len(HexChars) : HexChars[i] = c

SuccessShape ==
  /\ Succeeded
  /\ Len(call.result) = 1
  /\ DOMAIN call.result[1] = {"intent", "actor", "sig"}
  /\ call.result[1].intent = call.intent
  /\ call.result[1].actor = call.actor
  /\ Len(call.result[1].sig) = 2 + DigestHexLen
  /\ SubSeq(call.result[1].sig, 1, 2) = <<"0", "x">>
  /\ \A i \in 3..Len(call.result[1].sig) : IsHex(call.result[1].sig[i])
  /\ "last_ts" \in DOMAIN state
  /\ state["last_ts"] = call.t_commit
  /\ call.t_commit = clock

InRange == 0 <= call.intent.value /\ call.intent.value <= DailyOf(call.vault)

\* C4 as stated: an actor in the guardian set, value in [0, daily], a
\* well-formed recipient and 5 seconds since the last success give success.
C4_AsStated ==
  (/\ Called
   /\ call.actor \in vaults[call.vault].guardians
   /\ InRange
   /\ WellFormed(call.intent.to)
   /\ call.prev_ok.ts >= 0
   /\ call.t - call.prev_ok.ts >= CooldownSecs)
  => SuccessShape

\* C4: a call from a non-empty actor of the guardian set, with value in
\* [0, daily], a well-formed recipient and at least 5 seconds since the last
\* successful sign (since time 0 when none succeeded yet) succeeds: it
\* returns {intent, actor, sig} with sig "0x" and 64 hex characters, and
\* sets the cooldown timestamp to the time it read.
C4_ValidCallSucceeds ==
  (/\ Called
   /\ call.actor # ""
   /\ call.actor \in vaults[call.vault].guardians
   /\ InRange
   /\ WellFormed(call.intent.to)
   /\ call.t - (IF call.prev_ok.ts >= 0 THEN call.prev_ok.ts ELSE 0) >= CooldownSecs)
  => SuccessShape

C4_Witness ==
  /\ SuccessShape
  /\ call.intent.value = DailyOf(call.vault) /\ call.intent.value > 0
  /\ call.prev_ok.ts >= 0

\* C5: two successful signs of equal intents under equal secrets return
\* equal signatures, whatever the time, cooldown timestamp, actor, vault
\* limits and guardians of the two calls.
C5_Deterministic ==
  (/\ Succeeded /\ kept # <<>>
   /\ kept[1].intent = call.intent
   /\ kept[1].secret = vaults[call.vault].secret)
  => call.result[1].sig = kept[1].sig

C5_Witness ==
  /\ Succeeded /\ kept # <<>>
  /\ kept[1].intent = call.intent
  /\ kept[1].secret = vaults[call.vault].secret
  /\ kept[1].vault # call.vault
  /\ kept[1].actor # call.actor
  /\ kept[1].ts # call.t_commit
  /\ vaults[kept[1].vault].limits # vaults[call.vault].limits
  /\ call.result[1].sig = kept[1].sig

\* C6: with a non-decreasing clock the cooldown timestamp never decreases.
C6_Monotonic == [][LastTs(state') >= LastTs(state)]_vars

C6_Witness ==
  /\ Succeeded
  /\ "last_ts" \in DOMAIN call.state_before
  /\ state["last_ts"] > call.state_before["last_ts"]

\* C7: no step changes a Vault's secret, limits or guardians, the intent a
\* sign call was given has the same fields when the call ends, and the only
\* key of `state` ever written is last_ts.
C7_Frame ==
  [][/\ vaults' = vaults
     /\ DOMAIN state' \subseteq {"last_ts"}
     /\ call' # NoCall => call'.intent_after = <<call'.intent>>]_vars

C7_Witness ==
  /\ Succeeded
  /\ call.intent.value > 0
  /\ vaults = InitVaults
  /\ call.intent_after = <<call.intent>>

\* C9: after a successful sign through one Vault, a call through another
\* Vault that passes checks 1-4 less than 5 seconds later is rejected with
\* CooldownViolation.
C9_SharedCooldown ==
  (/\ Called /\ call.prev_ok.ts >= 0
   /\ call.prev_ok.vault # call.vault
   /\ PassesChecks1to4
   /\ call.t - call.prev_ok.ts < CooldownSecs)
  => call.outcome = CooldownViolation

C9_Witness ==
  /\ Called /\ call.prev_ok.ts >= 0
  /\ call.prev_ok.vault # call.vault
  /\ vaults[call.prev_ok.vault].secret # vaults[call.vault].secret
  /\ vaults[call.prev_ok.vault].guardians # vaults[call.vault].guardians
  /\ PassesChecks1to4
  /\ call.t - call.prev_ok.ts < CooldownSecs
  /\ call.outcome = CooldownViolation

\* C10: a call is rejected with CooldownViolation only if an earlier sign
\* succeeded less than 5 seconds before it.
C10_CooldownOnlyAfterSuccess ==
  (Called /\ call.outcome = CooldownViolation)
  => (call.prev_ok.ts >= 0 /\ call.t - call.prev_ok.ts < CooldownSecs)


====
